---------------------------- MODULE Spec2Model ----------------------------
(***************************************************************************)
(* The dialect grammars of orator: MySQLQueryGrammar, PostgresQueryGrammar *)
(* and PostgresSchemaGrammar.                                              *)
(*                                                                         *)
(* A Python string is a sequence of atoms.  An atom is a piece of text the *)
(* grammars never look inside: a keyword, a name, a marker, or one of the  *)
(* characters the code handles on its own (" ", ",", "(", ")", "*", the quotes).*)
(* Concatenation and %-formatting are \o; an identifier is itself a        *)
(* sequence of atoms, so that quoting can double the quote characters in   *)
(* it.  A Python value that may be None, a bool, an int or a str is a      *)
(* record with a tag.                                                      *)
(***************************************************************************)
EXTENDS Naturals, Sequences, FiniteSets

VARIABLES mysqlGrammar, postgresGrammar, schemaGrammar, call, result, after

vars == <<mysqlGrammar, postgresGrammar, schemaGrammar, call, result, after>>

grammars == <<mysqlGrammar, postgresGrammar, schemaGrammar>>

-----------------------------------------------------------------------------
(* Bounds of the inputs. *)

MaxRows == 2

MaxLen == 3

MaxJoins == 2

MaxClauses == 2

MaxWheres == 2

-----------------------------------------------------------------------------
(* The quote characters: MySQL's backtick and the double quote. *)

Backtick == "<backtick>"

DQuote == "\""

(* Python values. *)

None == [tag |-> "None"]

Str(text) == [tag |-> "str", text |-> text]

Bool(b) == [tag |-> "bool", b |-> b]

Int(n) == [tag |-> "int", n |-> n]

Tuple(items) == [tag |-> "tuple", items |-> items]

Raise(exc) == [tag |-> "raise", exc |-> exc]

(* bool(value): Python truthiness. *)
Truthy(value) ==
    CASE value.tag = "None" -> FALSE
      [] value.tag = "bool" -> value.b
      [] value.tag = "int" -> value.n # 0
      [] value.tag = "str" -> value.text # <<>>
      [] OTHER -> TRUE

(* sep.join(items) *)
RECURSIVE Join(_, _)
Join(sep, items) ==
    IF items = <<>> THEN <<>>
    ELSE IF Len(items) = 1 THEN items[1]
    ELSE items[1] \o sep \o Join(sep, Tail(items))

(* [item] * n *)
Repeat(item, n) == [i \in 1..n |-> item]

(* text.replace(old, new) for a one-atom old *)
RECURSIVE Replace(_, _, _)
Replace(text, old, new) ==
    IF text = <<>> THEN <<>>
    ELSE (IF Head(text) = old THEN new ELSE <<Head(text)>>)
             \o Replace(Tail(text), old, new)

RECURSIVE lstrip(_)
lstrip(text) ==
    IF text # <<>> /\ Head(text) = " " THEN lstrip(Tail(text)) ELSE text

RECURSIVE rstrip(_)
rstrip(text) ==
    IF text # <<>> /\ text[Len(text)] = " "
    THEN rstrip(SubSeq(text, 1, Len(text) - 1))
    ELSE text

strip(text) == rstrip(lstrip(text))

-----------------------------------------------------------------------------
(* The class attributes of the three grammars. *)

MySQLQueryGrammar ==
    [ _select_components |->
          << "aggregate_", "columns", "from__", "joins", "wheres", "groups",
             "havings", "orders", "limit_", "offset_", "lock_" >>,
      marker |-> <<"%s">>,
      quote |-> Backtick ]

PostgresQueryGrammar ==
    [ _operators |->
          << "=", "<", ">", "<=", ">=", "<>", "!=", "like", "not like",
             "between", "ilike", "&", "|", "#", "<<", ">>" >>,
      marker |-> <<"%s">>,
      quote |-> DQuote ]

PostgresSchemaGrammar ==
    [ _modifiers |-> <<"increment", "nullable", "default">>,
      _serials |-> << "big_integer", "integer", "medium_integer",
                      "small_integer", "tiny_integer" >>,
      marker |-> <<"%s">>,
      quote |-> DQuote ]

-----------------------------------------------------------------------------
(* The base grammar (orator.query.grammars.grammar and                     *)
(* orator.schema.grammars.grammar), which the dialect grammars extend.     *)

(* Expression: a raw SQL fragment, never bound. *)
Expression(sql) == [tag |-> "expression", sql |-> sql]

is_expression(value) == value.tag = "expression"

(* A faulty variant: embedded backticks are not doubled. *)
MySQL__wrap_value_NoEscape(value) ==
    IF value = <<"*">> THEN value
    ELSE <<Backtick>> \o value \o <<Backtick>>

(* MySQLQueryGrammar._wrap_value *)
MySQL__wrap_value(value) ==
    IF value = <<"*">> THEN value
    ELSE <<Backtick>> \o Replace(value, Backtick, <<Backtick, Backtick>>)
             \o <<Backtick>>

(* The base grammar's _wrap_value, which the Postgres grammars inherit. *)
Base__wrap_value(value) ==
    IF value = <<"*">> THEN value
    ELSE <<DQuote>> \o Replace(value, DQuote, <<DQuote, DQuote>>) \o <<DQuote>>

wrap(self, value) ==
    IF self.quote = Backtick THEN MySQL__wrap_value(value)
    ELSE Base__wrap_value(value)

wrap_table(self, table) == wrap(self, table)

columnize(self, columns) ==
    Join(<<",", " ">>, [i \in 1..Len(columns) |-> wrap(self, columns[i])])

parameter(self, value) ==
    IF is_expression(value) THEN value.sql ELSE self.marker

parameterize(self, values) ==
    Join(<<",", " ">>, [i \in 1..Len(values) |-> parameter(self, values[i])])

-----------------------------------------------------------------------------
(* A row mapping is an ordered dict: a sequence of <<key, value>> items. *)

keys(row) == [i \in 1..Len(row) |-> row[i][1]]

values_(row) == [i \in 1..Len(row) |-> row[i][2]]

(* if not isinstance(values, list): values = [values] *)
AsList(values) == IF values.tag = "list" THEN values.items ELSE <<values.row>>

(* A faulty variant: the group is rendered once, whatever the number of rows. *)
UpsertValueGroups_OneGroup(self, rows) ==
    <<"(">> \o parameterize(self, values_(rows[1])) \o <<")">>

(* value = ["(%s)" % parameters] * len(values); ", ".join(value) *)
UpsertValueGroups(self, rows) ==
    Join(<<",", " ">>,
         Repeat(<<"(">> \o parameterize(self, values_(rows[1])) \o <<")">>,
                Len(rows)))

(* MySQLQueryGrammar.compile_upsert: returns at line 116. *)
MySQL_compile_upsert(self, query, values, conflict_keys, conflict_columns) ==
    LET table == wrap_table(self, query.from__)
        rows == AsList(values)
    IN  IF rows = <<>> THEN Raise("IndexError")
        ELSE LET columns == columnize(self, keys(rows[1]))
                 parameters == UpsertValueGroups(self, rows)
             IN  Tuple(<<columns, parameters>>)

(* A faulty variant: every pair takes its EXCLUDED side from the first column. *)
ConflictUpdateStatements_FirstColumn(conflict_columns) ==
    [i \in 1..Len(conflict_columns) |->
        conflict_columns[i] \o <<" ", "=", " ", "EXCLUDED", ".">>
            \o conflict_columns[1]]

(* "%s = EXCLUDED.%s" % (col, col) for col in conflict_columns *)
ConflictUpdateStatements(conflict_columns) ==
    [i \in 1..Len(conflict_columns) |->
        conflict_columns[i] \o <<" ", "=", " ", "EXCLUDED", ".">>
            \o conflict_columns[i]]

(* conflict_key_join = ", ".join(conflict_keys) *)
ConflictKeyJoin(conflict_keys) == Join(<<",", " ">>, conflict_keys)

(* PostgresQueryGrammar.compile_upsert *)
Postgres_compile_upsert(self, query, values, conflict_keys, conflict_columns) ==
    LET table == wrap_table(self, query.from__)
        rows == AsList(values)
    IN  IF rows = <<>> THEN Raise("IndexError")
        ELSE LET columns == columnize(self, keys(rows[1]))
                 parameters == UpsertValueGroups(self, rows)
                 conflict_key_join == ConflictKeyJoin(conflict_keys)
                 conflict_update_join ==
                     Join(<<",", " ">>,
                          ConflictUpdateStatements(conflict_columns))
             IN  Str(<<"INSERT", " ", "INTO", " ">> \o table \o <<" ", "(">>
                     \o columns \o <<")", " ", "VALUES", " ">> \o parameters
                     \o <<" ", "ON", " ", "CONFLICT", " ", "(">>
                     \o conflict_key_join
                     \o <<")", " ", "DO", " ", "UPDATE", " ", "SET", " ">>
                     \o conflict_update_join)

(* PostgresSchemaGrammar.compile_upsert *)
Schema_compile_upsert(self, query, values, conflict_keys, conflict_columns) ==
    LET table == wrap_table(self, query.from__)
        rows == AsList(values)
    IN  IF rows = <<>> THEN Raise("IndexError")
        ELSE LET columns == columnize(self, keys(rows[1]))
                 parameters ==
                     Join(<<",", " ">>,
                          Repeat(<<"(">>
                                     \o parameterize(self, values_(rows[1]))
                                     \o <<")">>,
                                 Len(rows)))
                 conflict_key_join == Join(<<",", " ">>, conflict_keys)
                 conflict_update_join ==
                     Join(<<",", " ">>,
                          [i \in 1..Len(conflict_columns) |->
                              conflict_columns[i]
                                  \o <<" ", "=", " ", "EXCLUDED", ".">>
                                  \o conflict_columns[i]])
             IN  Str(<<"INSERT", " ", "INTO", " ">> \o table \o <<" ", "(">>
                     \o columns \o <<")", " ", "VALUES", " ">> \o parameters
                     \o <<" ", "ON", " ", "CONFLICT", " ", "(">>
                     \o conflict_key_join
                     \o <<")", " ", "DO", " ", "UPDATE", " ", "SET", " ">>
                     \o conflict_update_join)

-----------------------------------------------------------------------------
(* Lock clauses. *)

(* A faulty variant: the shared lock of the other dialect. *)
MySQL__compile_lock_ForShare(self, query, value) ==
    IF value.tag = "str" THEN value
    ELSE IF value = Bool(TRUE) THEN Str(<<"FOR", " ", "UPDATE">>)
    ELSE IF value = Bool(FALSE) THEN Str(<<"FOR", " ", "SHARE">>)
    ELSE None

(* MySQLQueryGrammar._compile_lock: no branch for a value that is neither  *)
(* a str, True nor False, so the call returns None.                        *)
MySQL__compile_lock(self, query, value) ==
    IF value.tag = "str" THEN value
    ELSE IF value = Bool(TRUE) THEN Str(<<"FOR", " ", "UPDATE">>)
    ELSE IF value = Bool(FALSE)
    THEN Str(<<"LOCK", " ", "IN", " ", "SHARE", " ", "MODE">>)
    ELSE None

(* PostgresQueryGrammar._compile_lock *)
Postgres__compile_lock(self, query, value) ==
    IF value.tag = "str" THEN value
    ELSE IF Truthy(value) THEN Str(<<"FOR", " ", "UPDATE">>)
    ELSE Str(<<"FOR", " ", "SHARE">>)

-----------------------------------------------------------------------------
(* The clause renderers of the base query grammar. *)

Connectors == {"and", "or"}

(* Drops the connector a predicate list starts with. *)
_remove_leading_boolean(text) ==
    IF Len(text) >= 2 /\ text[1] \in Connectors /\ text[2] = " "
    THEN SubSeq(text, 3, Len(text))
    ELSE text

(* A basic where node: <boolean> <column> <operator> <placeholder> *)
_where_basic(self, where) ==
    <<where.boolean, " ">> \o wrap(self, where.column)
        \o <<" ", where.operator, " ">> \o parameter(self, where.value)

_compile_wheres(self, query) ==
    IF query.wheres.tag = "None" \/ query.wheres.items = <<>> THEN <<>>
    ELSE <<"WHERE", " ">>
             \o _remove_leading_boolean(
                    Join(<<" ">>,
                         [i \in 1..Len(query.wheres.items) |->
                             _where_basic(self, query.wheres.items[i])]))

(* An ON-constraint: <boolean> <first> <operator> <second> *)
_compile_join_constraints(self, clause) ==
    <<clause.boolean, " ">> \o wrap(self, clause.first)
        \o <<" ", clause.operator, " ">> \o wrap(self, clause.second)

(* <TYPE> JOIN <table> ON <constraints>, for a join with constraints *)
_compile_join(self, join) ==
    <<join.type, " ", "JOIN", " ">> \o wrap_table(self, join.table)
        \o <<" ", "ON", " ">>
        \o _remove_leading_boolean(
               Join(<<" ">>,
                    [i \in 1..Len(join.clauses) |->
                        _compile_join_constraints(self, join.clauses[i])]))

_compile_joins(self, query, joins) ==
    Join(<<" ">>, [i \in 1..Len(joins) |-> _compile_join(self, joins[i])])

_compile_orders(self, query, orders) ==
    <<"ORDER", " ", "BY", " ">>
        \o Join(<<",", " ">>,
                [i \in 1..Len(orders) |->
                    wrap(self, orders[i].column)
                        \o <<" ", orders[i].direction>>])

IntText(n) == << <<"0">>, <<"1">>, <<"2">>, <<"3">> >>[n + 1]

_compile_limit(self, query, limit) == <<"LIMIT", " ">> \o IntText(limit.n)

-----------------------------------------------------------------------------
(* MySQLQueryGrammar.compile_delete *)

(* if query.orders: sql += " %s" % ...; if query.limit_: sql += " %s" % ... *)
DeleteOrderLimit(self, query) ==
    (IF query.orders # <<>>
     THEN <<" ">> \o _compile_orders(self, query, query.orders) ELSE <<>>)
    \o (IF Truthy(query.limit_)
        THEN <<" ">> \o _compile_limit(self, query, query.limit_) ELSE <<>>)

(* A faulty variant: the statement is not stripped before ORDER BY and LIMIT. *)
MySQL_compile_delete_NoStrip(self, query) ==
    LET table == wrap_table(self, query.from__)
        wheres == IF query.wheres.tag = "list"
                  THEN _compile_wheres(self, query) ELSE <<>>
        sql == IF query.joins # <<>>
               THEN LET joins ==
                            <<" ">> \o _compile_joins(self, query, query.joins)
                    IN  <<"DELETE", " ">> \o table \o <<" ", "FROM", " ">>
                            \o table \o joins \o <<" ">> \o wheres
               ELSE <<"DELETE", " ", "FROM", " ">> \o table \o <<" ">>
                        \o wheres
    IN  Str(sql \o DeleteOrderLimit(self, query))

MySQL_compile_delete(self, query) ==
    LET table == wrap_table(self, query.from__)
        wheres == IF query.wheres.tag = "list"
                  THEN _compile_wheres(self, query) ELSE <<>>
        sql == IF query.joins # <<>>
               THEN LET joins ==
                            <<" ">> \o _compile_joins(self, query, query.joins)
                    IN  <<"DELETE", " ">> \o table \o <<" ", "FROM", " ">>
                            \o table \o joins \o <<" ">> \o wheres
               ELSE <<"DELETE", " ", "FROM", " ">> \o table \o <<" ">>
                        \o wheres
    IN  Str(strip(sql) \o DeleteOrderLimit(self, query))

-----------------------------------------------------------------------------
(* PostgresQueryGrammar.compile_update *)

Postgres__compile_update_columns(self, values) ==
    Join(<<",", " ">>,
         [i \in 1..Len(values) |->
             wrap(self, values[i][1]) \o <<" ", "=", " ">>
                 \o parameter(self, values[i][2])])

Postgres__compile_update_from(self, query) ==
    IF query.joins = <<>> THEN <<>>
    ELSE LET froms == [i \in 1..Len(query.joins) |->
                          wrap_table(self, query.joins[i].table)]
         IN  IF Len(froms) # 0
             THEN <<" ", "FROM", " ">> \o Join(<<",", " ">>, froms)
             ELSE <<>>

(* for join in query.joins: for clause in join.clauses: append *)
RECURSIVE JoinClauses(_)
JoinClauses(joins) ==
    IF joins = <<>> THEN <<>>
    ELSE Head(joins).clauses \o JoinClauses(Tail(joins))

Postgres__compile_update_join_wheres(self, query) ==
    LET clauses == JoinClauses(query.joins)
    IN  Join(<<" ">>,
             [i \in 1..Len(clauses) |->
                 _compile_join_constraints(self, clauses[i])])

(* A faulty variant: the connector of the first join predicate is kept. *)
Postgres__compile_update_wheres_KeepsConnector(self, query) ==
    LET base_where == _compile_wheres(self, query)
    IN  IF query.joins = <<>> THEN base_where
        ELSE LET join_where == Postgres__compile_update_join_wheres(self, query)
             IN  IF strip(base_where) = <<>>
                 THEN <<"WHERE", " ">> \o join_where
                 ELSE base_where \o <<" ">> \o join_where

Postgres__compile_update_wheres(self, query) ==
    LET base_where == _compile_wheres(self, query)
    IN  IF query.joins = <<>> THEN base_where
        ELSE LET join_where == Postgres__compile_update_join_wheres(self, query)
             IN  IF strip(base_where) = <<>>
                 THEN <<"WHERE", " ">> \o _remove_leading_boolean(join_where)
                 ELSE base_where \o <<" ">> \o join_where

Postgres_compile_update(self, query, values) ==
    LET table == wrap_table(self, query.from__)
        columns == Postgres__compile_update_columns(self, values)
        from_ == Postgres__compile_update_from(self, query)
        where == Postgres__compile_update_wheres(self, query)
    IN  Str(strip(<<"UPDATE", " ">> \o table \o <<" ", "SET", " ">>
                      \o columns \o from_ \o <<" ">> \o where))

-----------------------------------------------------------------------------
(* PostgresSchemaGrammar: column types and modifiers. *)

Schema__type_char(column) == <<"CHAR", "(">> \o column.length \o <<")">>

Schema__type_string(column) == <<"VARCHAR", "(">> \o column.length \o <<")">>

Schema__type_text(column) == <<"TEXT">>

Schema__type_medium_text(column) == <<"TEXT">>

Schema__type_long_text(column) == <<"TEXT">>

Schema__type_integer(column) ==
    IF column.auto_increment THEN <<"SERIAL">> ELSE <<"INTEGER">>

Schema__type_big_integer(column) ==
    IF column.auto_increment THEN <<"BIGSERIAL">> ELSE <<"BIGINT">>

Schema__type_medium_integer(column) ==
    IF column.auto_increment THEN <<"SERIAL">> ELSE <<"INTEGER">>

Schema__type_tiny_integer(column) ==
    IF column.auto_increment THEN <<"SMALLSERIAL">> ELSE <<"SMALLINT">>

Schema__type_small_integer(column) ==
    IF column.auto_increment THEN <<"SMALLSERIAL">> ELSE <<"SMALLINT">>

Schema__type_double(column) == <<"DOUBLE", " ", "PRECISION">>

Schema__type_float(column) == Schema__type_double(column)

Schema__type_decimal(column) ==
    <<"DECIMAL", "(">> \o column.total \o <<",", " ">> \o column.places
        \o <<")">>

Schema__type_boolean(column) == <<"BOOLEAN">>

Schema__type_enum(column) ==
    <<"VARCHAR", "(", "255", ")", " ", "CHECK", " ", "(", DQuote>>
        \o column.name \o <<DQuote, " ", "IN", " ", "(">>
        \o Join(<<",", " ">>,
                [i \in 1..Len(column.allowed) |->
                    <<"'">> \o column.allowed[i] \o <<"'">>])
        \o <<")", ")">>

Schema__type_json(column) == <<"JSON">>

Schema__type_date(column) == <<"DATE">>

Schema__type_datetime(column) ==
    <<"TIMESTAMP(6)", " ", "WITHOUT", " ", "TIME", " ", "ZONE">>

Schema__type_time(column) ==
    <<"TIME(6)", " ", "WITHOUT", " ", "TIME", " ", "ZONE">>

Schema__type_timestamp(column) ==
    IF column.use_current
    THEN <<"TIMESTAMP(6)", " ", "WITHOUT", " ", "TIME", " ", "ZONE", " ",
           "DEFAULT", " ", "CURRENT_TIMESTAMP(6)">>
    ELSE <<"TIMESTAMP(6)", " ", "WITHOUT", " ", "TIME", " ", "ZONE">>

Schema__type_binary(column) == <<"BYTEA">>

Schema__type_uuid(column) == <<"UUID">>

(* The type tags the grammar has a _type_<tag> method for. *)
TypeTags ==
    { "char", "string", "text", "medium_text", "long_text", "integer",
      "big_integer", "medium_integer", "tiny_integer", "small_integer",
      "float", "double", "decimal", "boolean", "enum", "json", "date",
      "datetime", "time", "timestamp", "binary", "uuid" }

(* The base schema grammar's _get_type: getattr(self, "_type_" + type). *)
_get_type(column) ==
    CASE column.type = "char" -> Schema__type_char(column)
      [] column.type = "string" -> Schema__type_string(column)
      [] column.type = "text" -> Schema__type_text(column)
      [] column.type = "medium_text" -> Schema__type_medium_text(column)
      [] column.type = "long_text" -> Schema__type_long_text(column)
      [] column.type = "integer" -> Schema__type_integer(column)
      [] column.type = "big_integer" -> Schema__type_big_integer(column)
      [] column.type = "medium_integer" -> Schema__type_medium_integer(column)
      [] column.type = "tiny_integer" -> Schema__type_tiny_integer(column)
      [] column.type = "small_integer" -> Schema__type_small_integer(column)
      [] column.type = "float" -> Schema__type_float(column)
      [] column.type = "double" -> Schema__type_double(column)
      [] column.type = "decimal" -> Schema__type_decimal(column)
      [] column.type = "boolean" -> Schema__type_boolean(column)
      [] column.type = "enum" -> Schema__type_enum(column)
      [] column.type = "json" -> Schema__type_json(column)
      [] column.type = "date" -> Schema__type_date(column)
      [] column.type = "datetime" -> Schema__type_datetime(column)
      [] column.type = "time" -> Schema__type_time(column)
      [] column.type = "timestamp" -> Schema__type_timestamp(column)
      [] column.type = "binary" -> Schema__type_binary(column)
      [] column.type = "uuid" -> Schema__type_uuid(column)

(* The base schema grammar's rendering of a default value: quoted. *)
_get_default_value(value) == <<"'">> \o value.text \o <<"'">>

Schema__modify_nullable(self, column) ==
    IF column.nullable THEN <<" ", "NULL">> ELSE <<" ", "NOT", " ", "NULL">>

Schema__modify_default(self, column) ==
    IF column.default.tag # "None"
    THEN <<" ", "DEFAULT", " ">> \o _get_default_value(column.default)
    ELSE <<>>

InSeq(x, seq) == \E i \in 1..Len(seq) : seq[i] = x

(* A faulty variant: the column type is not looked up in _serials. *)
Schema__modify_increment_AnyType(self, column) ==
    IF column.auto_increment
    THEN <<" ", "PRIMARY", " ", "KEY">>
    ELSE <<>>

Schema__modify_increment(self, column) ==
    IF InSeq(column.type, self._serials) /\ column.auto_increment
    THEN <<" ", "PRIMARY", " ", "KEY">>
    ELSE <<>>

(* getattr(self, "_modify_" + modifier) *)
_modify(self, modifier, column) ==
    CASE modifier = "increment" -> Schema__modify_increment(self, column)
      [] modifier = "nullable" -> Schema__modify_nullable(self, column)
      [] modifier = "default" -> Schema__modify_default(self, column)

(* The base schema grammar's _add_modifiers: one fragment per entry of     *)
(* self._modifiers, in that order.                                         *)
RECURSIVE ModifierFragments(_, _, _)
ModifierFragments(self, modifiers, column) ==
    IF modifiers = <<>> THEN <<>>
    ELSE <<_modify(self, Head(modifiers), column)>>
             \o ModifierFragments(self, Tail(modifiers), column)

_add_modifiers(self, sql, column) ==
    sql \o Join(<<>>, ModifierFragments(self, self._modifiers, column))

(* The base schema grammar's _get_columns, for one column:                 *)
(* <name> <type><modifiers>                                                *)
_get_column(self, column) ==
    _add_modifiers(self,
                   wrap(self, column.name) \o <<" ">> \o _get_type(column),
                   column)

-----------------------------------------------------------------------------
(* The inputs: statements, rows, lock values, identifiers and columns.     *)

SeqsUpTo(S, n) == UNION {[1..k -> S] : k \in 0..n}

PyList(items) == [tag |-> "list", items |-> items]

PyDict(row) == [tag |-> "dict", row |-> row]

Wheres ==
    [boolean : Connectors, column : {<<"id">>}, operator : {"="},
     value : {Int(1)}]

Clauses ==
    [boolean : Connectors, first : {<<"t_id">>}, operator : {"="},
     second : {<<"j_id">>}]

JoinTables == << <<"a">>, <<"b">>, <<"c">>, <<"d">> >>

(* The ON-constraints of a join list, over all its joins. *)
RECURSIVE ClauseCount(_)
ClauseCount(joins) ==
    IF joins = <<>> THEN 0
    ELSE Len(Head(joins).clauses) + ClauseCount(Tail(joins))

(* The join lists of at most MaxJoins joins with at most MaxClauses        *)
(* ON-constraints in all; the i-th join joins JoinTables[i].               *)
JoinLists ==
    UNION { { js \in { [i \in 1..k |->
                           [table |-> JoinTables[i], type |-> "INNER",
                            clauses |-> cs[i]]] :
                        cs \in [1..k -> SeqsUpTo(Clauses, MaxClauses)] } :
                  ClauseCount(js) <= MaxClauses } :
            k \in 0..MaxJoins }

(* None, or a list of at most MaxWheres nodes under one connector. *)
WhereValues ==
    {None}
        \cup { PyList([i \in 1..k |-> w]) : k \in 0..MaxWheres, w \in Wheres }

OrderLists == {<<>>, <<[column |-> <<"id">>, direction |-> "ASC"]>>}

Limits == {None, Int(0), Int(1)}

Queries ==
    [from__ : {<<"t">>}, joins : JoinLists, wheres : WhereValues,
     orders : OrderLists, limit_ : Limits]

(* A join rendered with the JOIN keyword carries an ON-constraint. *)
DeleteQueries ==
    {q \in Queries : \A i \in 1..Len(q.joins) : q.joins[i].clauses # <<>>}

UpdateQueries == {q \in Queries : q.orders = <<>> /\ q.limit_ = None}

PlainQueries == {q \in UpdateQueries : q.joins = <<>>}

UpsertQueries == {q \in PlainQueries : q.wheres = None}

Rows ==
    { << <<<<"id">>, Int(1)>> >>,
      << <<<<"name">>, Int(1)>> >>,
      << <<<<"id">>, Int(1)>>, <<<<"name">>, Int(2)>> >>,
      << <<<<"id">>, Int(1)>>, <<<<"name">>, Expression(<<"NOW()">>)>> >> }

UpdateValues == {r \in Rows : Len(r) = 2}

UpsertValues ==
    {PyDict(r) : r \in Rows} \cup {PyList(rs) : rs \in SeqsUpTo(Rows, MaxRows)}

ConflictKeys == {<<>>, << <<"id">> >>, << <<"id">>, <<"name">> >>}

ConflictColumns == {<<>>, << <<"name">> >>, << <<"name">>, <<"id">> >>}

LockValues ==
    { Str(<<"FOR", " ", "UPDATE", " ", "SKIP", " ", "LOCKED">>), Str(<<>>),
      Bool(TRUE), Bool(FALSE), None, Int(0), Int(1) }

Identifiers == SeqsUpTo({"a", Backtick, "*"}, MaxLen)

Columns ==
    [name : {<<"c">>}, type : TypeTags, auto_increment : BOOLEAN,
     nullable : BOOLEAN, default : {None, Str(<<"x">>)},
     use_current : BOOLEAN, length : {<<"255">>}, total : {<<"8">>},
     places : {<<"2">>}, allowed : {<< <<"x">>, <<"y">> >>}]

-----------------------------------------------------------------------------
(* The state: the three grammar instances, the last call with its          *)
(* arguments as passed, what it returned, and the argument objects as the  *)
(* call left them.                                                         *)

(* No call is in progress. *)
NoCall == [fn |-> "none", args |-> [none |-> None]]

Init ==
    /\ mysqlGrammar = MySQLQueryGrammar
    /\ postgresGrammar = PostgresQueryGrammar
    /\ schemaGrammar = PostgresSchemaGrammar
    /\ call = NoCall
    /\ result = None
    /\ after = NoCall.args

CallMySQLUpsert ==
    /\ call = NoCall
    /\ \E query \in UpsertQueries, values \in UpsertValues,
          conflict_keys \in ConflictKeys, conflict_columns \in ConflictColumns :
           LET args == [query |-> query, values |-> values,
                        conflict_keys |-> conflict_keys,
                        conflict_columns |-> conflict_columns]
           IN  /\ call' = [fn |-> "MySQL.compile_upsert", args |-> args]
               /\ result' = MySQL_compile_upsert(mysqlGrammar, query, values,
                                                 conflict_keys, conflict_columns)
               /\ after' = args
               /\ UNCHANGED grammars

CallPostgresUpsert ==
    /\ call = NoCall
    /\ \E query \in UpsertQueries, values \in UpsertValues,
          conflict_keys \in ConflictKeys, conflict_columns \in ConflictColumns :
           LET args == [query |-> query, values |-> values,
                        conflict_keys |-> conflict_keys,
                        conflict_columns |-> conflict_columns]
           IN  /\ call' = [fn |-> "Postgres.compile_upsert", args |-> args]
               /\ result' = Postgres_compile_upsert(postgresGrammar, query,
                                                    values, conflict_keys,
                                                    conflict_columns)
               /\ after' = args
               /\ UNCHANGED grammars

CallSchemaUpsert ==
    /\ call = NoCall
    /\ \E query \in UpsertQueries, values \in UpsertValues,
          conflict_keys \in ConflictKeys, conflict_columns \in ConflictColumns :
           LET args == [query |-> query, values |-> values,
                        conflict_keys |-> conflict_keys,
                        conflict_columns |-> conflict_columns]
           IN  /\ call' = [fn |-> "Schema.compile_upsert", args |-> args]
               /\ result' = Schema_compile_upsert(schemaGrammar, query, values,
                                                  conflict_keys, conflict_columns)
               /\ after' = args
               /\ UNCHANGED grammars

CallMySQLLock ==
    /\ call = NoCall
    /\ \E query \in PlainQueries, value \in LockValues :
           LET args == [query |-> query, value |-> value]
           IN  /\ call' = [fn |-> "MySQL._compile_lock", args |-> args]
               /\ result' = MySQL__compile_lock(mysqlGrammar, query, value)
               /\ after' = args
               /\ UNCHANGED grammars

CallPostgresLock ==
    /\ call = NoCall
    /\ \E query \in PlainQueries, value \in LockValues :
           LET args == [query |-> query, value |-> value]
           IN  /\ call' = [fn |-> "Postgres._compile_lock", args |-> args]
               /\ result' = Postgres__compile_lock(postgresGrammar, query, value)
               /\ after' = args
               /\ UNCHANGED grammars

CallMySQLDelete ==
    /\ call = NoCall
    /\ \E query \in DeleteQueries :
           LET args == [query |-> query]
           IN  /\ call' = [fn |-> "MySQL.compile_delete", args |-> args]
               /\ result' = MySQL_compile_delete(mysqlGrammar, query)
               /\ after' = args
               /\ UNCHANGED grammars

(* A faulty variant: the call consumes the joins of its statement. *)
CallPostgresUpdate_ConsumesJoins ==
    /\ call = NoCall
    /\ \E query \in UpdateQueries, values \in UpdateValues :
           LET args == [query |-> query, values |-> values]
           IN  /\ call' = [fn |-> "Postgres.compile_update", args |-> args]
               /\ result' = Postgres_compile_update(postgresGrammar, query,
                                                    values)
               /\ after' = [args EXCEPT !.query.joins = <<>>]
               /\ UNCHANGED grammars

CallPostgresUpdate ==
    /\ call = NoCall
    /\ \E query \in UpdateQueries, values \in UpdateValues :
           LET args == [query |-> query, values |-> values]
           IN  /\ call' = [fn |-> "Postgres.compile_update", args |-> args]
               /\ result' = Postgres_compile_update(postgresGrammar, query,
                                                    values)
               /\ after' = args
               /\ UNCHANGED grammars

CallMySQLWrapValue ==
    /\ call = NoCall
    /\ \E value \in Identifiers :
           LET args == [value |-> value]
           IN  /\ call' = [fn |-> "MySQL._wrap_value", args |-> args]
               /\ result' = Str(MySQL__wrap_value(value))
               /\ after' = args
               /\ UNCHANGED grammars

CallSchemaColumn ==
    /\ call = NoCall
    /\ \E column \in Columns :
           LET args == [column |-> column]
           IN  /\ call' = [fn |-> "Schema._get_columns", args |-> args]
               /\ result' = Str(_get_column(schemaGrammar, column))
               /\ after' = args
               /\ UNCHANGED grammars

(* The caller takes the result; the grammar instances stay. *)
Return ==
    /\ call # NoCall
    /\ call' = NoCall
    /\ result' = None
    /\ after' = NoCall.args
    /\ UNCHANGED grammars

Next ==
    \/ CallMySQLUpsert
    \/ CallPostgresUpsert
    \/ CallSchemaUpsert
    \/ CallMySQLLock
    \/ CallPostgresLock
    \/ CallMySQLDelete
    \/ CallPostgresUpdate
    \/ CallMySQLWrapValue
    \/ CallSchemaColumn
    \/ Return

Spec == Init /\ [][Next]_vars

-----------------------------------------------------------------------------
(* Reading a rendered text. *)

Has(text, atom) == \E i \in 1..Len(text) : text[i] = atom

Count(text, atom) == Cardinality({i \in 1..Len(text) : text[i] = atom})

FirstIndex(text, atom) ==
    CHOOSE i \in 1..Len(text) :
        text[i] = atom /\ \A j \in 1..(i - 1) : text[j] # atom

(* The text after, and before, the first occurrence of atom. *)
After(text, atom) == SubSeq(text, FirstIndex(text, atom) + 1, Len(text))

Before(text, atom) == SubSeq(text, 1, FirstIndex(text, atom) - 1)

EndsWith(text, tail) ==
    /\ Len(tail) <= Len(text)
    /\ SubSeq(text, Len(text) - Len(tail) + 1, Len(text)) = tail

StartsWith(text, head) ==
    /\ Len(head) <= Len(text)
    /\ SubSeq(text, 1, Len(head)) = head

(* item, sep, item, sep, ..., item: n items *)
RECURSIVE Listed(_, _, _)
Listed(item, sep, n) ==
    IF n = 0 THEN <<>>
    ELSE IF n = 1 THEN item
    ELSE item \o sep \o Listed(item, sep, n - 1)

-----------------------------------------------------------------------------
(* Upsert. *)

PostgresUpsertReturned ==
    /\ call.fn \in {"Postgres.compile_upsert", "Schema.compile_upsert"}
    /\ result.tag = "str"

(* The rows of the call, and what the rows have in common. *)
CallRows == AsList(call.args.values)

SameKeys == \A i \in 1..Len(CallRows) : keys(CallRows[i]) = keys(CallRows[1])

(* The VALUES clause of an upsert statement. *)
ValuesClause(text) == strip(Before(After(text, "VALUES"), "ON"))

(* The conflict target: the text between ON CONFLICT ( and ) DO. *)
ConflictTarget(text) == Before(After(After(text, "CONFLICT"), "("), ")")

(* The SET list: the text after DO UPDATE SET and its space. *)
SetList(text) == Tail(After(text, "SET"))

(* C1: MySQL compile_upsert returns, for every non-empty input, one SQL    *)
(* text INSERT INTO <table> (<cols>) VALUES <groups> ON DUPLICATE KEY      *)
(* UPDATE <col = col, ...>, with one pair per conflict column in order,    *)
(* and never another shape such as a pair of columns and placeholders.     *)
C1_MySQLUpsertIsStatement ==
    (call.fn = "MySQL.compile_upsert" /\ CallRows # <<>>)
        => /\ result.tag = "str"
           /\ StartsWith(result.text, <<"INSERT", " ", "INTO", " ">>)
           /\ EndsWith(result.text,
                       <<" ", "ON", " ", "DUPLICATE", " ", "KEY", " ",
                         "UPDATE", " ">>
                           \o Join(<<",", " ">>,
                                   [i \in 1..Len(call.args.conflict_columns) |->
                                       call.args.conflict_columns[i]
                                           \o <<" ", "=", " ">>
                                           \o call.args.conflict_columns[i]]))

(* A placeholder group with one marker for each of n columns. *)
MarkerGroup(n) == <<"(">> \o Listed(<<"%s">>, <<",", " ">>, n) \o <<")">>

(* C2 as stated: for N >= 1 rows sharing identical keys (a single mapping  *)
(* is N = 1), the VALUES clause of the Postgres upserts is N groups        *)
(* separated by ", ", each with exactly one placeholder per column of row  *)
(* 0: N * len(columns) placeholders in all.                                *)
C2_OnePlaceholderPerColumn ==
    (PostgresUpsertReturned /\ SameKeys)
        => LET n == Len(CallRows)
               columns == Len(CallRows[1])
           IN  /\ ValuesClause(result.text)
                      = Listed(MarkerGroup(columns), <<",", " ">>, n)
               /\ Count(ValuesClause(result.text), "%s") = n * columns

(* What row 0 puts in a group: a marker for a bound value, the raw SQL of  *)
(* an Expression.                                                          *)
RECURSIVE Row0Entries(_)
Row0Entries(row) ==
    IF row = <<>> THEN <<>>
    ELSE (IF Len(row) > 1 THEN Row0Entries(SubSeq(row, 1, Len(row) - 1))
                                   \o <<",", " ">>
          ELSE <<>>)
         \o (IF row[Len(row)][2].tag = "expression"
             THEN row[Len(row)][2].sql ELSE <<"%s">>)

Bound(row) == {i \in 1..Len(row) : row[i][2].tag # "expression"}

(* C2 amended: the VALUES clause is N groups separated by ", ", each the   *)
(* group of row 0, which holds one entry per column of row 0: a            *)
(* placeholder for a bound value, the raw fragment for an Expression; the  *)
(* placeholders number N times the bound values of row 0.                  *)
C2_GroupsFollowRow0 ==
    (PostgresUpsertReturned /\ SameKeys)
        => LET n == Len(CallRows)
               group == <<"(">> \o Row0Entries(CallRows[1]) \o <<")">>
           IN  /\ ValuesClause(result.text) = Listed(group, <<",", " ">>, n)
               /\ Count(ValuesClause(result.text), "(") = n
               /\ Count(group, ",") = Len(CallRows[1]) - 1
               /\ Count(ValuesClause(result.text), "%s")
                      = n * Cardinality(Bound(CallRows[1]))

C2_Witness ==
    /\ PostgresUpsertReturned
    /\ SameKeys
    /\ Len(CallRows) = 2
    /\ Len(CallRows[1]) = 2
    /\ Bound(CallRows[1]) = {1}
    /\ Count(result.text, "%s") = 2

(* C3: the Postgres upserts end with ON CONFLICT (<k1, k2, ...>) DO UPDATE *)
(* SET <c = EXCLUDED.c, ...>: every conflict key in the given order, and   *)
(* one pair per conflict column in the given order, the same column on     *)
(* both sides of the pair.                                                 *)
RECURSIVE ExcludedPairs(_)
ExcludedPairs(cols) ==
    IF cols = <<>> THEN <<>>
    ELSE Head(cols) \o <<" ", "=", " ", "EXCLUDED", ".">> \o Head(cols)
             \o (IF Len(cols) > 1 THEN <<",", " ">> ELSE <<>>)
             \o ExcludedPairs(Tail(cols))

RECURSIVE KeyList(_)
KeyList(ks) ==
    IF ks = <<>> THEN <<>>
    ELSE Head(ks) \o (IF Len(ks) > 1 THEN <<",", " ">> ELSE <<>>)
             \o KeyList(Tail(ks))

C3_ConflictClause ==
    PostgresUpsertReturned
        => /\ EndsWith(result.text,
                       <<" ", "ON", " ", "CONFLICT", " ", "(">>
                           \o KeyList(call.args.conflict_keys)
                           \o <<")", " ", "DO", " ", "UPDATE", " ", "SET",
                                " ">>
                           \o ExcludedPairs(call.args.conflict_columns))
           /\ Count(SetList(result.text), "EXCLUDED")
                  = Len(call.args.conflict_columns)

C3_Witness ==
    /\ PostgresUpsertReturned
    /\ Len(call.args.conflict_keys) = 2
    /\ Len(call.args.conflict_columns) = 2
    /\ call.args.conflict_columns[1] # call.args.conflict_columns[2]
    /\ Count(result.text, "EXCLUDED") = 2

(* C4: in the Postgres upsert every conflict key inside ON CONFLICT (...)  *)
(* is a double-quoted identifier, rendered like the column names of the    *)
(* INSERT column list, while the columns of the SET list are unquoted.     *)
C4_ConflictKeysQuoted ==
    PostgresUpsertReturned
        => /\ ConflictTarget(result.text)
                  = columnize(postgresGrammar, call.args.conflict_keys)
           /\ ~Has(SetList(result.text), DQuote)

-----------------------------------------------------------------------------
(* Lock. *)

(* C5: _compile_lock returns a string value verbatim and FOR UPDATE for    *)
(* True; for False MySQL returns LOCK IN SHARE MODE and Postgres FOR       *)
(* SHARE.  The result is decided by the value alone, whatever the query.   *)
C5_Lock ==
    call.fn \in {"MySQL._compile_lock", "Postgres._compile_lock"}
        => LET value == call.args.value
           IN  /\ value.tag = "str" => result = value
               /\ value = Bool(TRUE)
                      => result = Str(<<"FOR", " ", "UPDATE">>)
               /\ (value = Bool(FALSE) /\ call.fn = "MySQL._compile_lock")
                      => result = Str(<<"LOCK", " ", "IN", " ", "SHARE", " ",
                                        "MODE">>)
               /\ (value = Bool(FALSE) /\ call.fn = "Postgres._compile_lock")
                      => result = Str(<<"FOR", " ", "SHARE">>)

C5_Witness ==
    /\ call.fn = "MySQL._compile_lock"
    /\ call.args.value = Bool(FALSE)
    /\ call.args.query.wheres # None
    /\ result = Str(<<"LOCK", " ", "IN", " ", "SHARE", " ", "MODE">>)

-----------------------------------------------------------------------------
(* Delete. *)

NoOuterSpace(text) == text # <<>> /\ text[1] # " " /\ text[Len(text)] # " "

NoDoubleSpace(text) ==
    \A i \in 1..(Len(text) - 1) : ~(text[i] = " " /\ text[i + 1] = " ")

(* C6: MySQL compile_delete renders DELETE <table> FROM <table> <joins>    *)
(* <wheres> with joins and DELETE FROM <table> <wheres> without; an ORDER  *)
(* BY fragment and then a LIMIT fragment follow, in that order, only when  *)
(* present; the text has no leading or trailing whitespace and no two      *)
(* consecutive spaces, also when wheres is empty.                          *)
C6_Delete ==
    call.fn = "MySQL.compile_delete"
        => LET q == call.args.query
               text == result.text
               table == <<Backtick>> \o q.from__ \o <<Backtick>>
               wheres == IF q.wheres.tag = "list"
                         THEN _compile_wheres(mysqlGrammar, q) ELSE <<>>
               head == IF q.joins # <<>>
                       THEN <<"DELETE", " ">> \o table \o <<" ", "FROM", " ">>
                                \o table \o <<" ">>
                                \o _compile_joins(mysqlGrammar, q, q.joins)
                       ELSE <<"DELETE", " ", "FROM", " ">> \o table
               orders == IF q.orders # <<>>
                         THEN <<" ">> \o _compile_orders(mysqlGrammar, q,
                                                         q.orders)
                         ELSE <<>>
               limit == IF q.limit_ \notin {None, Int(0)}
                        THEN <<" ">> \o _compile_limit(mysqlGrammar, q,
                                                       q.limit_)
                        ELSE <<>>
           IN  /\ result.tag = "str"
               /\ text = head
                             \o (IF wheres # <<>> THEN <<" ">> \o wheres
                                 ELSE <<>>)
                             \o orders \o limit
               /\ Has(text, "JOIN") <=> q.joins # <<>>
               /\ Has(text, "ORDER") => q.orders # <<>>
               /\ Has(text, "LIMIT") => q.limit_ # None
               /\ (Has(text, "ORDER") /\ Has(text, "LIMIT"))
                      => FirstIndex(text, "ORDER") < FirstIndex(text, "LIMIT")
               /\ NoOuterSpace(text)
               /\ NoDoubleSpace(text)

C6_Witness ==
    /\ call.fn = "MySQL.compile_delete"
    /\ Len(call.args.query.joins) = 2
    /\ call.args.query.wheres = PyList(<<>>)
    /\ Has(result.text, "ORDER")
    /\ Has(result.text, "LIMIT")
    /\ ~Has(result.text, "WHERE")

-----------------------------------------------------------------------------
(* Update. *)

(* The predicates of a statement in the order of the claim: the base       *)
(* wheres, then the ON-constraints of the joins in join order, each with   *)
(* its connector.                                                          *)
RECURSIVE BasePredicates(_)
BasePredicates(ws) ==
    IF ws = <<>> THEN <<>>
    ELSE << <<Head(ws).boolean, " ", DQuote>> \o Head(ws).column
               \o <<DQuote, " ", Head(ws).operator, " ", "%s">> >>
             \o BasePredicates(Tail(ws))

RECURSIVE OnPredicates(_)
OnPredicates(cs) ==
    IF cs = <<>> THEN <<>>
    ELSE << <<Head(cs).boolean, " ", DQuote>> \o Head(cs).first
               \o <<DQuote, " ", Head(cs).operator, " ", DQuote>>
               \o Head(cs).second \o <<DQuote>> >>
             \o OnPredicates(Tail(cs))

RECURSIVE AllOnPredicates(_)
AllOnPredicates(joins) ==
    IF joins = <<>> THEN <<>>
    ELSE OnPredicates(Head(joins).clauses) \o AllOnPredicates(Tail(joins))

Predicates(q) ==
    (IF q.wheres.tag = "list" THEN BasePredicates(q.wheres.items) ELSE <<>>)
        \o AllOnPredicates(q.joins)

RECURSIVE QuotedTables(_)
QuotedTables(joins) ==
    IF joins = <<>> THEN <<>>
    ELSE <<DQuote>> \o Head(joins).table \o <<DQuote>>
             \o (IF Len(joins) > 1 THEN <<",", " ">> ELSE <<>>)
             \o QuotedTables(Tail(joins))

(* All the predicates, the first without its connector. *)
RECURSIVE Spaced(_)
Spaced(preds) ==
    IF preds = <<>> THEN <<>>
    ELSE Head(preds) \o (IF Len(preds) > 1 THEN <<" ">> ELSE <<>>)
             \o Spaced(Tail(preds))

PredicateText(preds) == SubSeq(Spaced(preds), 3, Len(Spaced(preds)))

(* C7: Postgres compile_update on a statement with joins renders no JOIN   *)
(* keyword: every join's table is listed, in join order, in " FROM t1,     *)
(* t2, ..." right after the SET list, and every ON-constraint of every     *)
(* join is in the WHERE clause after the base predicates; the first        *)
(* predicate carries no connector, so WHERE is never followed by one.      *)
C7_UpdateWithJoins ==
    (call.fn = "Postgres.compile_update" /\ call.args.query.joins # <<>>)
        => LET q == call.args.query
               text == result.text
               set == <<"UPDATE", " ", DQuote>> \o q.from__
                          \o <<DQuote, " ", "SET", " ">>
                          \o Postgres__compile_update_columns(
                                 postgresGrammar, call.args.values)
               from == <<" ", "FROM", " ">> \o QuotedTables(q.joins)
           IN  /\ result.tag = "str"
               /\ ~Has(text, "JOIN")
               /\ StartsWith(text, set \o from \o <<" ", "WHERE">>)
               /\ Predicates(q) # <<>>
                      => text = set \o from \o <<" ", "WHERE", " ">>
                                    \o PredicateText(Predicates(q))
               /\ \A i \in 1..(Len(text) - 2) :
                      (text[i] = "WHERE" /\ text[i + 1] = " ")
                          => text[i + 2] \notin Connectors

C7_Witness ==
    /\ call.fn = "Postgres.compile_update"
    /\ Len(call.args.query.joins) = 2
    /\ call.args.query.wheres = PyList(<<>>)
    /\ Len(call.args.query.joins[1].clauses) = 1
    /\ call.args.query.joins[1].clauses[1].boolean = "or"
    /\ Len(call.args.query.joins[2].clauses) = 1
    /\ call.args.query.joins[2].clauses[1].boolean = "and"
    /\ Count(result.text, "or") = 0
    /\ Count(result.text, "and") = 1
    /\ Count(result.text, "WHERE") = 1

-----------------------------------------------------------------------------
(* Identifier quoting. *)

(* The backticks of a text stand in adjacent pairs. *)
RECURSIVE Paired(_)
Paired(text) ==
    IF text = <<>> THEN TRUE
    ELSE IF Head(text) = Backtick
    THEN Len(text) >= 2 /\ text[2] = Backtick
             /\ Paired(SubSeq(text, 3, Len(text)))
    ELSE Paired(Tail(text))

(* Each pair of backticks read as one. *)
RECURSIVE Undouble(_)
Undouble(text) ==
    IF text = <<>> THEN <<>>
    ELSE IF Head(text) = Backtick /\ Len(text) >= 2 /\ text[2] = Backtick
    THEN <<Backtick>> \o Undouble(SubSeq(text, 3, Len(text)))
    ELSE <<Head(text)>> \o Undouble(Tail(text))

(* C8: MySQL _wrap_value returns * unchanged; every other identifier comes *)
(* back between one opening and one closing backtick, its own backticks    *)
(* doubled: between the enclosing backticks the backticks stand in         *)
(* adjacent pairs, and un-doubling gives back the identifier.              *)
C8_WrapValue ==
    call.fn = "MySQL._wrap_value"
        => LET value == call.args.value
               text == result.text
               inner == SubSeq(text, 2, Len(text) - 1)
           IN  IF value = <<"*">> THEN text = <<"*">>
               ELSE /\ Len(text) >= 2
                    /\ text[1] = Backtick
                    /\ text[Len(text)] = Backtick
                    /\ Paired(inner)
                    /\ Undouble(inner) = value
                    /\ Count(inner, Backtick) = 2 * Count(value, Backtick)

C8_Witness ==
    /\ call.fn = "MySQL._wrap_value"
    /\ Len(call.args.value) = 3
    /\ call.args.value[2] = Backtick
    /\ call.args.value[3] = "*"
    /\ Count(result.text, Backtick) = 4

-----------------------------------------------------------------------------
(* Column definitions. *)

SerialFamily == {"SERIAL", "BIGSERIAL", "SMALLSERIAL"}

IntegerTags ==
    {"big_integer", "integer", "medium_integer", "small_integer",
     "tiny_integer"}

(* C9: the type text is of the SERIAL family exactly when the increment    *)
(* modifier renders PRIMARY KEY, which is exactly when the type is one of  *)
(* the five integer tags of _serials and auto_increment is set; otherwise  *)
(* the integer tags render INTEGER, BIGINT or SMALLINT and no PRIMARY KEY; *)
(* the modifiers follow the type in the order increment, nullable,         *)
(* default.                                                                *)
C9_SerialAndPrimaryKey ==
    call.fn = "Schema._get_columns"
        => LET column == call.args.column
               text == result.text
               serial == \E a \in SerialFamily : Has(text, a)
               key == Has(text, "PRIMARY")
               auto == column.type \in IntegerTags /\ column.auto_increment
               increment == IF auto THEN <<" ", "PRIMARY", " ", "KEY">>
                            ELSE <<>>
               nullable == IF column.nullable THEN <<" ", "NULL">>
                           ELSE <<" ", "NOT", " ", "NULL">>
               default == IF column.default = None THEN <<>>
                          ELSE <<" ", "DEFAULT", " ", "'">>
                                   \o column.default.text \o <<"'">>
           IN  /\ serial <=> key
               /\ key <=> auto
               /\ InSeq(column.type, schemaGrammar._serials)
                      <=> column.type \in IntegerTags
               /\ (column.type \in IntegerTags /\ ~column.auto_increment)
                      => /\ \E a \in {"INTEGER", "BIGINT", "SMALLINT"} :
                                Has(text, a)
                         /\ ~key
               /\ text = <<DQuote>> \o column.name \o <<DQuote, " ">>
                             \o _get_type(column)
                             \o increment \o nullable \o default

C9_Witness ==
    /\ call.fn = "Schema._get_columns"
    /\ call.args.column.type = "tiny_integer"
    /\ call.args.column.auto_increment
    /\ ~call.args.column.nullable
    /\ call.args.column.default # None
    /\ Has(result.text, "SMALLSERIAL")
    /\ Has(result.text, "PRIMARY")
    /\ Has(result.text, "DEFAULT")

-----------------------------------------------------------------------------
(* Re-entrancy. *)

(* The entry point of the last call, applied again to the arguments as the *)
(* call left them, by the grammar instances as they are now.               *)
Recompile ==
    CASE call.fn = "MySQL.compile_upsert" ->
             MySQL_compile_upsert(mysqlGrammar, after.query, after.values,
                                  after.conflict_keys, after.conflict_columns)
      [] call.fn = "Postgres.compile_upsert" ->
             Postgres_compile_upsert(postgresGrammar, after.query,
                                     after.values, after.conflict_keys,
                                     after.conflict_columns)
      [] call.fn = "Schema.compile_upsert" ->
             Schema_compile_upsert(schemaGrammar, after.query, after.values,
                                   after.conflict_keys, after.conflict_columns)
      [] call.fn = "MySQL._compile_lock" ->
             MySQL__compile_lock(mysqlGrammar, after.query, after.value)
      [] call.fn = "Postgres._compile_lock" ->
             Postgres__compile_lock(postgresGrammar, after.query, after.value)
      [] call.fn = "MySQL.compile_delete" ->
             MySQL_compile_delete(mysqlGrammar, after.query)
      [] call.fn = "Postgres.compile_update" ->
             Postgres_compile_update(postgresGrammar, after.query,
                                     after.values)
      [] call.fn = "MySQL._wrap_value" -> Str(MySQL__wrap_value(after.value))
      [] call.fn = "Schema._get_columns" ->
             Str(_get_column(schemaGrammar, after.column))

-----------------------------------------------------------------------------
(* The WHERE clause of an update. *)

(* C11: in every output of Postgres compile_update a WHERE keyword is      *)
(* followed by at least one predicate; a statement with an empty base      *)
(* WHERE clause and joins that carry no ON-constraint never renders a      *)
(* WHERE that ends the statement.                                          *)
C11_WhereHasPredicate ==
    (call.fn = "Postgres.compile_update" /\ result.tag = "str")
        => \A i \in 1..Len(result.text) :
               result.text[i] = "WHERE"
                   => /\ i + 2 <= Len(result.text)
                      /\ result.text[i + 1] = " "
                      /\ result.text[i + 2] \notin Connectors \cup {" "}

-----------------------------------------------------------------------------
(* The DEFAULT clauses of a column definition. *)

(* C12: for every column definition, the type text followed by its         *)
(* modifiers (increment, nullable, default) holds at most one DEFAULT      *)
(* clause, also for a timestamp column that has use_current set and a      *)
(* default value that is not None.                                         *)
C12_AtMostOneDefault ==
    (call.fn = "Schema._get_columns" /\ result.tag = "str")
        => Count(result.text, "DEFAULT") <= 1

=============================================================================
